---- MODULE Spec2Model ----
(***************************************************************************)
(* Model of scripts/generate_wakatime_calendar.py: a single-run CLI that   *)
(* validates an API key, resolves a period, fetches daily summaries with   *)
(* retry, buckets the totals and renders an SVG calendar heatmap.          *)
(*                                                                         *)
(* Dates are proleptic Gregorian ordinals as in Python's datetime          *)
(* (date.toordinal(): 0001-01-01 is 1, a Monday); an ISO date string       *)
(* "YYYY-MM-DD" is the triple <<year, month, day>>.  Text that the code    *)
(* searches (an exception's message, the API key) is a sequence of tokens. *)
(***************************************************************************)
EXTENDS Integers, Sequences, FiniteSets, TLC

\* ------------------------------------------------------------------ bounds

\* Ordinal of the earliest "today" the clock may return, and how many further
\* days it may return (a span of 6 covers every weekday).
FirstToday == 739922
TodaySpan == 6
\* --max-retries ranges over -1 .. MaxRetriesArg.
MaxRetriesArg == 3
\* The mixed response body shifts its seconds samples by 0 .. MaxShift.
MaxShift == 1

\* ------------------------------------------------- constants of the program

ZERO_COLOR == "#fafafa"
\* Labels are sequences of characters; the source's en dash is "-" here and its
\* greater-or-equal sign is "G".
ZERO_LABEL == <<"0", "h">>
LEGEND_LABELS ==
    << <<"<", " ", "1", "h">>, <<"1", "-", "3", "h">>, <<"4", "-", "8", "h">>,
       <<"9", "-", "1", "0", "h">>, <<"1", "1", "-", "1", "2", "h">>,
       <<"G", " ", "1", "3", "h">> >>

DefaultLastDays == 365
DefaultTimeout == 60
DefaultTimezone == "Europe/Paris"
DefaultOutput == "wakatime_calendar.svg"
PaletteNames == {"green6", "blue6", "orange6", "purple6", "gray6"}

\* Python's datetime limits: date.min / date.max ordinals, MINYEAR / MAXYEAR,
\* and the largest day count of a timedelta.
MinOrdinal == 1
MaxOrdinal == 3652059
MINYEAR == 1
MAXYEAR == 9999
MaxTimedeltaDays == 999999999

\* Exit statuses: sys.exit(1), sys.exit(2), falling off the end of main, and the
\* interpreter's status for an exception nobody caught.
ExitBadKey == 1
ExitFetchError == 2
ExitSuccess == 0
ExitUncaught == 1

\* ----------------------------------------------------------------- values

Max(a, b) == IF a >= b THEN a ELSE b

\* A returned value, or a raised exception of the named type.
Ret(v) == [raised |-> "none", v |-> v]
Raise(e) == [raised |-> e, v |-> 0]

\* str.startswith
StartsWith(s, p) == Len(s) >= Len(p) /\ SubSeq(s, 1, Len(p)) = p

\* `needle in haystack` on token sequences
Contains(hay, needle) ==
    \E k \in 0..(Len(hay) - Len(needle)) :
        SubSeq(hay, k + 1, k + Len(needle)) = needle

\* ------------------------------------------------------------------ dates

IsLeap(y) == (y % 4 = 0) /\ ((y % 100 # 0) \/ (y % 400 = 0))

DaysBeforeYear(y) ==
    (y - 1) * 365 + ((y - 1) \div 4) - ((y - 1) \div 100) + ((y - 1) \div 400)

DaysInMonth(y, m) ==
    IF m = 2 THEN (IF IsLeap(y) THEN 29 ELSE 28)
    ELSE IF m \in {4, 6, 9, 11} THEN 30 ELSE 31

DaysBeforeMonth(y, m) ==
    <<0, 31, 59, 90, 120, 151, 181, 212, 243, 273, 304, 334>>[m]
    + (IF m > 2 /\ IsLeap(y) THEN 1 ELSE 0)

\* dt.date(y, m, d): the ordinal, or ValueError outside MINYEAR..MAXYEAR.
MakeDate(y, m, d) ==
    IF y < MINYEAR \/ y > MAXYEAR THEN Raise("ValueError")
    ELSE Ret(DaysBeforeYear(y) + DaysBeforeMonth(y, m) + d)

\* date + timedelta(days=n): OverflowError when the day count or the result is
\* out of range.
DatePlusDays(date, n) ==
    IF n > MaxTimedeltaDays \/ n < -MaxTimedeltaDays THEN Raise("OverflowError")
    ELSE IF date + n < MinOrdinal \/ date + n > MaxOrdinal THEN Raise("OverflowError")
    ELSE Ret(date + n)

\* date.weekday(): Monday is 0.
Weekday(date) == (date + 6) % 7

YearOf(date) ==
    CHOOSE y \in Max(MINYEAR, date \div 366)..((date \div 365) + 1) :
        DaysBeforeYear(y) < date /\ date <= DaysBeforeYear(y + 1)

MonthOfYearDay(y, n) ==
    CHOOSE m \in 1..12 :
        DaysBeforeMonth(y, m) < n /\ n <= DaysBeforeMonth(y, m) + DaysInMonth(y, m)

\* date.isoformat(): "YYYY-MM-DD" as <<year, month, day>>.
IsoFormat(date) ==
    LET y == YearOf(date)
        n == date - DaysBeforeYear(y)
        m == MonthOfYearDay(y, n)
    IN  <<y, m, n - DaysBeforeMonth(y, m)>>

\* date.month
MonthOf(date) == IsoFormat(date)[2]

\* date.strftime("%b")
MonthAbbr(date) ==
    <<"Jan", "Feb", "Mar", "Apr", "May", "Jun",
      "Jul", "Aug", "Sep", "Oct", "Nov", "Dec">>[MonthOf(date)]

\* ---------------------------------------------------------------- palette

build_palette6(name) ==
    IF name = "blue6" THEN
        <<"#eef5ff", "#d6e7ff", "#b8d5ff", "#8bb8ff", "#3f8cff", "#0b61ff">>
    ELSE IF name = "orange6" THEN
        <<"#fff3e8", "#ffe0c7", "#ffc191", "#ff9b57", "#ef6c00", "#b34f00">>
    ELSE IF name = "purple6" THEN
        <<"#f4efff", "#e1d5ff", "#c2a8ff", "#9b78ff", "#6a38c9", "#4d28a1">>
    ELSE IF name = "gray6" THEN
        <<"#eeeeee", "#dddddd", "#c9c9c9", "#b0b0b0", "#8b8b8b", "#616161">>
    ELSE
        <<"#f0f5ee", "#d7eec6", "#b2e08b", "#7bc96f", "#2ea043", "#196127">>

\* ---------------------------------------------------------------- buckets

Hour == 3600

\* bucket6 with inclusive thresholds (<= for <).
bucket6_Inclusive(seconds) ==
    IF seconds <= Hour THEN 0
    ELSE IF seconds <= 4 * Hour THEN 1
    ELSE IF seconds <= 9 * Hour THEN 2
    ELSE IF seconds <= 11 * Hour THEN 3
    ELSE IF seconds <= 13 * Hour THEN 4
    ELSE 5

bucket6(seconds) ==
    IF seconds < Hour THEN 0
    ELSE IF seconds < 4 * Hour THEN 1
    ELSE IF seconds < 9 * Hour THEN 2
    ELSE IF seconds < 11 * Hour THEN 3
    ELSE IF seconds < 13 * Hour THEN 4
    ELSE 5

\* ---------------------------------------------------------------- options

\* An optional value: None, or a present value (text is a sequence of tokens).
None == [none |-> TRUE, v |-> <<>>]
NoneInt == [none |-> TRUE, v |-> 0]
Some(x) == [none |-> FALSE, v |-> x]

\* Python truthiness of an optional string / an optional integer.
TruthyStr(o) == ~o.none /\ Len(o.v) > 0
TruthyInt(o) == ~o.none /\ o.v # 0

\* `not api_key or not api_key.startswith("waka_")`
KeyPrefix == <<"w", "a", "k", "a", "_">>
\* The key check without the prefix test.
KeyInvalid_NoPrefix(api_key) == ~TruthyStr(api_key)

KeyInvalid(api_key) == ~TruthyStr(api_key) \/ ~StartsWith(api_key.v, KeyPrefix)

\* ----------------------------------------------------------------- period

\* compute_period going back N days instead of N - 1.
compute_period_NoMinusOne(a, today) ==
    IF TruthyInt(a.year) THEN
        LET s == MakeDate(a.year.v, 1, 1)
            e == MakeDate(a.year.v, 12, 31)
        IN  IF s.raised # "none" THEN s
            ELSE IF e.raised # "none" THEN e
            ELSE Ret([start |-> s.v, end |-> e.v])
    ELSE
        LET s == DatePlusDays(today, -Max(1, a.last_days))
        IN  IF s.raised # "none" THEN s
            ELSE Ret([start |-> s.v, end |-> today])

compute_period(a, today) ==
    IF TruthyInt(a.year) THEN
        LET s == MakeDate(a.year.v, 1, 1)
            e == MakeDate(a.year.v, 12, 31)
        IN  IF s.raised # "none" THEN s
            ELSE IF e.raised # "none" THEN e
            ELSE Ret([start |-> s.v, end |-> e.v])
    ELSE
        LET s == DatePlusDays(today, -(Max(1, a.last_days) - 1))
        IN  IF s.raised # "none" THEN s
            ELSE Ret([start |-> s.v, end |-> today])

\* -------------------------------------------------------------------- SVG

title_top == 16
title_bottom_pad == 14
month_labels_y == title_top + title_bottom_pad
top == month_labels_y + 14
left == 48
cell == 10
gap == 2
col_w == cell + 16

\* xml.sax.saxutils.escape on a sequence of characters
sx_escape(s) ==
    [k \in 1..Len(s) |->
        IF s[k] = "&" THEN "&amp;"
        ELSE IF s[k] = "<" THEN "&lt;"
        ELSE IF s[k] = ">" THEN "&gt;"
        ELSE s[k]]

\* totals.get(date_str, 0)
TotalsGet(totals, date_str) ==
    IF date_str \in DOMAIN totals THEN totals[date_str] ELSE 0

\* The month-label loop: one label at each week whose Monday is in a month other
\* than last_month (0 stands for None).
RECURSIVE MonthLabels(_, _, _, _, _)
MonthLabels(w, weeks, start_monday, last_month, acc) ==
    IF w >= weeks THEN acc
    ELSE LET week_start == start_monday + 7 * w
             month == MonthOf(week_start)
         IN  IF month # last_month
             THEN MonthLabels(w + 1, weeks, start_monday, month,
                     Append(acc, [x |-> left + w * (cell + gap),
                                  y |-> month_labels_y,
                                  text |-> sx_escape(<<MonthAbbr(week_start)>>)]))
             ELSE MonthLabels(w + 1, weeks, start_monday, last_month, acc)

\* The fill with the zero test `s < 0`: a day of 0 seconds takes palette[0].
CellFill_ZeroInPalette(s, palette) ==
    IF s < 0 THEN ZERO_COLOR ELSE palette[bucket6(s) + 1]

\* The fill of one cell.
CellFill(s, palette) ==
    IF s <= 0 THEN ZERO_COLOR ELSE palette[bucket6(s) + 1]

\* The rectangles with cur restarted at start_monday on every week.
Rects_NoWeekAdvance(totals, start_monday, weeks, palette) ==
    [k \in 1..(7 * weeks) |->
        LET w == (k - 1) \div 7
            d == (k - 1) % 7
            cur == start_monday + d
            date_str == IsoFormat(cur)
            s == TotalsGet(totals, date_str)
        IN  [x |-> left + w * (cell + gap),
             y |-> top + d * (cell + gap),
             width |-> cell,
             height |-> cell,
             fill |-> CellFill(s, palette),
             date |-> date_str,
             hours |-> s \div 3600,
             mins |-> (s % 3600) \div 60]]

\* The rectangles in emission order: rectangle k is week (k-1) \div 7, weekday
\* (k-1) % 7, and cur has been advanced k-1 times from start_monday.
Rects(totals, start_monday, weeks, palette) ==
    [k \in 1..(7 * weeks) |->
        LET w == (k - 1) \div 7
            d == (k - 1) % 7
            cur == start_monday + (k - 1)
            date_str == IsoFormat(cur)
            s == TotalsGet(totals, date_str)
        IN  [x |-> left + w * (cell + gap),
             y |-> top + d * (cell + gap),
             width |-> cell,
             height |-> cell,
             fill |-> CellFill(s, palette),
             date |-> date_str,
             hours |-> s \div 3600,
             mins |-> (s % 3600) \div 60]]

\* The legend: the zero color first, then the palette.
Legend(palette, height) ==
    LET legend_colors == <<ZERO_COLOR>> \o palette
        legend_labels == <<ZERO_LABEL>> \o LEGEND_LABELS
    IN  [k \in 1..Len(legend_colors) |->
            [x |-> left + (k - 1) * col_w,
             y |-> height - 30,
             fill |-> legend_colors[k],
             text_x |-> left + (k - 1) * col_w + cell \div 2,
             text_y |-> height - 12,
             text |-> sx_escape(legend_labels[k])]]

\* The SVG document as the record of its elements, or the OverflowError of the
\* date arithmetic that aligns the grid.
build_heatmap_svg(totals, start, end, tz, palette, title) ==
    LET sm == DatePlusDays(start, -Weekday(start))
        es == DatePlusDays(end, 6 - Weekday(end))
    IN  IF sm.raised # "none" THEN sm
        ELSE IF es.raised # "none" THEN es
        ELSE
        LET start_monday == sm.v
            end_sunday == es.v
            days == (end_sunday - start_monday) + 1
            weeks == (days + 6) \div 7
            base_width == left + weeks * (cell + gap) + 36
            legend_needed_width == left + (1 + Len(palette)) * col_w + 20
            width == Max(base_width, legend_needed_width)
            height == top + 7 * (cell + gap) + 56
            the_title ==
                IF ~TruthyStr(title)
                THEN [default |-> TRUE, start |-> IsoFormat(start),
                      end |-> IsoFormat(end), tz |-> sx_escape(<<tz>>)]
                ELSE [default |-> FALSE, text |-> sx_escape(title.v)]
        IN  Ret([width |-> width,
                 height |-> height,
                 title |-> the_title,
                 months |-> MonthLabels(0, weeks, start_monday, 0, <<>>),
                 rects |-> Rects(totals, start_monday, weeks, palette),
                 legend |-> Legend(palette, height)])

\* ------------------------------------------------------------- remote API

\* The tuple of statuses the fetch retries.
TransientStatuses == {429, 500, 502, 503, 504}
\* "Remote end closed" as the fetch looks for it in str(e).
RemoteEndClosed == <<"Remote", "end", "closed">>

\* Statuses the server may fail with, and reasons a URLError may carry.
HttpErrorCodes == TransientStatuses \cup {401, 404}
UrlReasons == {<<"Remote", "end", "closed", "connection", "without", "response">>,
               <<"timed", "out">>}

\* Exceptions urlopen may raise.  An HTTPError has a code; a URLError has none.
HTTPError(code) ==
    [type |-> "HTTPError", code |-> code,
     str |-> <<"HTTP", "Error", ToString(code)>>]
URLError(reason) ==
    [type |-> "URLError", str |-> <<"<urlopen", "error">> \o reason \o <<">">>]
\* http.client.RemoteDisconnected raised while reading the response: not a
\* URLError.
RemoteDisconnected ==
    [type |-> "RemoteDisconnected",
     str |-> <<"Remote", "end", "closed", "connection", "without", "response">>]
JSONDecodeError == [type |-> "JSONDecodeError", str |-> <<"Expecting", "value">>]
KeyErrorData == [type |-> "KeyError", str |-> <<"data">>]
\* `raise None`
TypeErrorRaiseNone ==
    [type |-> "TypeError",
     str |-> <<"exceptions", "must", "derive", "from", "BaseException">>]
RuntimeErrorKey == [type |-> "RuntimeError", str |-> <<"cle", "absente/invalide">>]
NoError == [type |-> "NoneType"]

\* getattr(e, "code", None), with 0 for None
StatusOf(e) == IF "code" \in DOMAIN e THEN e.code ELSE 0

\* `status in (429, 500, 502, 503, 504) or "Remote end closed" in str(e)`
IsTransient(e) ==
    StatusOf(e) \in TransientStatuses \/ Contains(e.str, RemoteEndClosed)

\* Seconds the server reports, day after day, in a mixed body.
SecSamples ==
    <<0, 1, 3599, 3600, 14399, 14400, 32399, 32400, 39599, 39600, 40000, 46799,
      46800, 90000, -5>>

\* What one request may meet.
Bodies == {"zeros", "empty", "badrecord"}
Outcomes ==
    {[kind |-> "ok", body |-> b, shift |-> 0] : b \in Bodies}
    \cup {[kind |-> "ok", body |-> "mixed", shift |-> sh] : sh \in 0..MaxShift}
    \cup {[kind |-> "nodata"], [kind |-> "badjson"], [kind |-> "disconnect"]}
    \cup {[kind |-> "http", code |-> c] : c \in HttpErrorCodes}
    \cup {[kind |-> "url", reason |-> r] : r \in UrlReasons}

\* How the network's log names an outcome.
TagOf(o) ==
    IF o.kind = "http" THEN ToString(o.code)
    ELSE IF o.kind = "url" THEN "url:" \o o.reason[1]
    ELSE o.kind

\* The "data" array the server sends for a request: one record per day of
\* [start, end] (the request carries ISO dates, which the server parses).
ServerData(o, r) ==
    LET first == MakeDate(r.start[1], r.start[2], r.start[3]).v
        last == MakeDate(r.end[1], r.end[2], r.end[3]).v
        n == (last - first) + 1
    IN  IF o.body = "empty" THEN <<>>
        ELSE IF o.body = "badrecord" THEN <<[range |-> [date |-> r.start]]>>
        ELSE [k \in 1..n |->
                [range |-> [date |-> IsoFormat(first + (k - 1))],
                 grand_total |->
                    [total_seconds |->
                        IF o.body = "zeros" THEN 0
                        ELSE SecSamples[((k - 1 + o.shift) % Len(SecSamples)) + 1]]]]

\* The attempt with a body that does not parse taken for an empty data array.
AttemptResult_JsonSwallowed(o, r) ==
    IF o.kind = "ok" THEN [raised |-> NoError, v |-> ServerData(o, r)]
    ELSE IF o.kind = "nodata" THEN [raised |-> KeyErrorData, v |-> <<>>]
    ELSE IF o.kind = "badjson" THEN [raised |-> NoError, v |-> <<>>]
    ELSE IF o.kind = "disconnect" THEN [raised |-> RemoteDisconnected, v |-> <<>>]
    ELSE IF o.kind = "http" THEN [raised |-> HTTPError(o.code), v |-> <<>>]
    ELSE [raised |-> URLError(o.reason), v |-> <<>>]

\* What urlopen / json.loads / ["data"] give on one attempt: the data array, or
\* the exception raised.
AttemptResult(o, r) ==
    IF o.kind = "ok" THEN [raised |-> NoError, v |-> ServerData(o, r)]
    ELSE IF o.kind = "nodata" THEN [raised |-> KeyErrorData, v |-> <<>>]
    ELSE IF o.kind = "badjson" THEN [raised |-> JSONDecodeError, v |-> <<>>]
    ELSE IF o.kind = "disconnect" THEN [raised |-> RemoteDisconnected, v |-> <<>>]
    ELSE IF o.kind = "http" THEN [raised |-> HTTPError(o.code), v |-> <<>>]
    ELSE [raised |-> URLError(o.reason), v |-> <<>>]

\* `except (error.HTTPError, error.URLError)`
CaughtInFetch(e) == e.type \in {"HTTPError", "URLError"}

\* ----------------------------------------------------------------- totals

\* {d["range"]["date"]: d["grand_total"]["total_seconds"] for d in summaries}:
\* a later record replaces an earlier one of the same date; KeyError when a
\* record lacks a key.  The records lo..hi are folded by halves, the later half
\* taking precedence.
RECURSIVE DictOf(_, _, _)
DictOf(summaries, lo, hi) ==
    IF lo > hi THEN [x \in {} |-> 0]
    ELSE IF lo = hi
    THEN (summaries[lo].range.date :> summaries[lo].grand_total.total_seconds)
    ELSE LET mid == (lo + hi) \div 2
         IN  DictOf(summaries, mid + 1, hi) @@ DictOf(summaries, lo, mid)

TotalsFrom(summaries) ==
    IF \E k \in 1..Len(summaries) :
          ~("range" \in DOMAIN summaries[k] /\ "grand_total" \in DOMAIN summaries[k])
    THEN Raise("KeyError")
    ELSE Ret(DictOf(summaries, 1, Len(summaries)))

\* ------------------------------------------------------------------ state

VARIABLES
    args,       \* the parsed command line (parse_args)
    clock,      \* the system date, read by dt.date.today()
    pc,         \* where main (or fetch_summaries, called from it) stands
    today,      \* compute_period's today, once read
    period,     \* (start, end), once resolved
    palette,    \* the 6 colors, once built
    req,        \* fetch_summaries' request, once built
    i,          \* fetch_summaries' loop variable
    last_err,   \* fetch_summaries' last_err
    net,        \* the network: requests issued, sleeps taken, what was met and served
    exc,        \* the exception fetch_summaries raised
    summaries,  \* main's summaries, once fetched
    totals,     \* main's totals, once aggregated
    svg,        \* main's svg, once rendered
    file,       \* what was written to args.output
    out,        \* lines printed on stdout
    err,        \* lines printed on stderr
    uncaught,   \* the type of the exception that ended the process, if any
    exit_code   \* the exit status, once the process has ended

vars == <<args, clock, pc, today, period, palette, req, i, last_err, net, exc,
          summaries, totals, svg, file, out, err, uncaught, exit_code>>

\* ------------------------------------------------------------ command lines

KeyValid1 == Some(KeyPrefix \o <<"x", "1">>)
KeyValid2 == Some(KeyPrefix)
KeyMissing == None
KeyEmpty == Some(<<>>)
KeyOther == Some(<<"s", "e", "c", "r", "e", "t">>)
KeyShort == Some(<<"w", "a", "k", "a">>)

\* --last-days n / --year y (mutually exclusive; last_days defaults to 365)
LastDays(n) == [last_days |-> n, year |-> NoneInt]
Year(y) == [last_days |-> DefaultLastDays, year |-> Some(y)]

CustomTitle == Some(<<"R", "&", "D", " ", "<", "2", ">">>)

ArgsOf(keys, modes, retries, palettes, titles) ==
    {[api_key |-> k, last_days |-> m.last_days, year |-> m.year,
      timezone |-> DefaultTimezone, output |-> DefaultOutput, title |-> t,
      max_retries |-> r, timeout |-> DefaultTimeout, palette |-> p] :
        k \in keys, m \in modes, r \in retries, p \in palettes, t \in titles}

Todays == FirstToday..(FirstToday + TodaySpan)

\* The state after parse_args, for a set of command lines and of dates.
InitWith(cmdlines, dates) ==
    /\ args \in cmdlines
    /\ clock \in dates
    /\ pc = "main_key"
    /\ today = NoneInt
    /\ period = None
    /\ palette = <<>>
    /\ req = None
    /\ i = 0
    /\ last_err = NoError
    /\ net = [requests |-> 0, sleeps |-> <<>>, log |-> <<>>, met |-> NoError,
              served |-> None]
    /\ exc = NoError
    /\ summaries = None
    /\ totals = None
    /\ svg = None
    /\ file = None
    /\ out = <<>>
    /\ err = <<>>
    /\ uncaught = "none"
    /\ exit_code = NoneInt

\* ------------------------------------------------------------------- main

\* An exception nobody catches: the interpreter prints the traceback and the
\* process ends with status 1.
Die(e) ==
    /\ uncaught' = e
    /\ err' = Append(err, <<"Traceback", e>>)
    /\ exit_code' = Some(ExitUncaught)
    /\ pc' = "exited"

\* main: the key check (sys.exit(1) on a missing or malformed key).
MainCheckKey ==
    /\ pc = "main_key"
    /\ IF KeyInvalid(args.api_key)
       THEN /\ err' = Append(err, <<"cle manquante ou invalide">>)
            /\ exit_code' = Some(ExitBadKey)
            /\ pc' = "exited"
       ELSE /\ pc' = "main_period"
            /\ UNCHANGED <<err, exit_code>>
    /\ UNCHANGED <<args, clock, today, period, palette, req, i, last_err, net, exc,
                   summaries, totals, svg, file, out, uncaught>>

\* main: start, end = compute_period(args)
MainComputePeriod ==
    /\ pc = "main_period"
    /\ today' = Some(clock)
    /\ LET r == compute_period(args, clock)
       IN  IF r.raised # "none"
           THEN /\ Die(r.raised)
                /\ UNCHANGED period
           ELSE /\ period' = Some(r.v)
                /\ pc' = "main_palette"
                /\ UNCHANGED <<err, exit_code, uncaught>>
    /\ UNCHANGED <<args, clock, palette, req, i, last_err, net, exc, summaries,
                   totals, svg, file, out>>

\* main: palette = build_palette6(args.palette)
MainBuildPalette ==
    /\ pc = "main_palette"
    /\ palette' = build_palette6(args.palette)
    /\ pc' = "fetch_enter"
    /\ UNCHANGED <<args, clock, today, period, req, i, last_err, net, exc,
                   summaries, totals, svg, file, out, err, uncaught, exit_code>>

\* fetch_summaries up to the loop: the key check, the request, last_err = None.
FetchEnter ==
    /\ pc = "fetch_enter"
    /\ IF KeyInvalid(args.api_key)
       THEN /\ exc' = RuntimeErrorKey
            /\ pc' = "main_except"
            /\ UNCHANGED <<req, i, last_err>>
       ELSE /\ req' = Some([start |-> IsoFormat(period.v.start),
                            end |-> IsoFormat(period.v.end),
                            timezone |-> args.timezone,
                            auth |-> <<"Basic">> \o args.api_key.v \o <<":">>,
                            timeout |-> args.timeout])
            /\ i' = 1
            /\ last_err' = NoError
            /\ pc' = "fetch_loop"
            /\ UNCHANGED exc
    /\ UNCHANGED <<args, clock, today, period, palette, net, summaries, totals,
                   svg, file, out, err, uncaught, exit_code>>

\* The loop running one pass more (range(max_retries + 1) counted from 1).
LoopContinues_OneMore(n, max_retries) == n <= max_retries + 1

\* `for i in range(1, max_retries + 1)`: whether pass i runs.
LoopContinues(n, max_retries) == n <= max_retries

\* One pass of `for i in range(1, max_retries + 1)`: the request, then the
\* return, the sleep and next pass, or the exception leaving the function.
FetchAttempt ==
    /\ pc = "fetch_loop"
    /\ LoopContinues(i, args.max_retries)
    /\ \E o \in Outcomes :
        LET r == AttemptResult(o, req.v)
            e == r.raised
            sent == [net EXCEPT !.requests = @ + 1,
                                !.log = Append(@, TagOf(o)),
                                !.met = e]
        IN  IF e = NoError
            THEN /\ summaries' = Some(r.v)
                 /\ net' = [sent EXCEPT !.served = Some(r.v)]
                 /\ pc' = "main_totals"
                 /\ UNCHANGED <<i, last_err, exc>>
            ELSE IF ~CaughtInFetch(e)
            THEN /\ exc' = e
                 /\ net' = sent
                 /\ pc' = "main_except"
                 /\ UNCHANGED <<i, last_err, summaries>>
            ELSE IF IsTransient(e)
            THEN /\ last_err' = e
                 /\ net' = [sent EXCEPT !.sleeps = Append(@, 2 * i)]
                 /\ i' = i + 1
                 /\ UNCHANGED <<pc, exc, summaries>>
            ELSE /\ last_err' = e
                 /\ exc' = e
                 /\ net' = sent
                 /\ pc' = "main_except"
                 /\ UNCHANGED <<i, summaries>>
    /\ UNCHANGED <<args, clock, today, period, palette, req, totals, svg, file,
                   out, err, uncaught, exit_code>>

\* The end of the loop returning an empty list instead of raising.
FetchExhausted_ReturnsEmpty ==
    /\ pc = "fetch_loop"
    /\ ~LoopContinues(i, args.max_retries)
    /\ summaries' = Some(<<>>)
    /\ pc' = "main_totals"
    /\ UNCHANGED <<args, clock, today, period, palette, req, i, last_err, net, exc,
                   totals, svg, file, out, err, uncaught, exit_code>>

\* The loop is over: `raise last_err` (a TypeError when last_err is None).
FetchExhausted ==
    /\ pc = "fetch_loop"
    /\ ~LoopContinues(i, args.max_retries)
    /\ exc' = IF last_err = NoError THEN TypeErrorRaiseNone ELSE last_err
    /\ pc' = "main_except"
    /\ UNCHANGED <<args, clock, today, period, palette, req, i, last_err, net,
                   summaries, totals, svg, file, out, err, uncaught, exit_code>>

\* The handler without its sys.exit(2): main goes on after printing the error.
MainExcept_NoExit ==
    /\ pc = "main_except"
    /\ err' = Append(err, <<"Erreur lors de l'appel WakaTime">> \o exc.str)
    /\ pc' = "main_totals"
    /\ UNCHANGED <<args, clock, today, period, palette, req, i, last_err, net, exc,
                   summaries, totals, svg, file, out, uncaught, exit_code>>

\* main: `except Exception as e`: print the error, sys.exit(2).
MainExcept ==
    /\ pc = "main_except"
    /\ err' = Append(err, <<"Erreur lors de l'appel WakaTime">> \o exc.str)
    /\ exit_code' = Some(ExitFetchError)
    /\ pc' = "exited"
    /\ UNCHANGED <<args, clock, today, period, palette, req, i, last_err, net, exc,
                   summaries, totals, svg, file, out, uncaught>>

\* main: the date -> seconds mapping.
MainTotals ==
    /\ pc = "main_totals"
    /\ LET r == TotalsFrom(summaries.v)
       IN  IF r.raised # "none"
           THEN /\ Die(r.raised)
                /\ UNCHANGED totals
           ELSE /\ totals' = Some(r.v)
                /\ pc' = "main_render"
                /\ UNCHANGED <<err, exit_code, uncaught>>
    /\ UNCHANGED <<args, clock, today, period, palette, req, i, last_err, net, exc,
                   summaries, svg, file, out>>

\* main: svg = build_heatmap_svg(...)
MainRender ==
    /\ pc = "main_render"
    /\ LET r == build_heatmap_svg(totals.v, period.v.start, period.v.end,
                                  args.timezone, palette, args.title)
       IN  IF r.raised # "none"
           THEN /\ Die(r.raised)
                /\ UNCHANGED svg
           ELSE /\ svg' = Some(r.v)
                /\ pc' = "main_write"
                /\ UNCHANGED <<err, exit_code, uncaught>>
    /\ UNCHANGED <<args, clock, today, period, palette, req, i, last_err, net, exc,
                   summaries, totals, file, out>>

\* main: open(args.output, "w") and f.write(svg); the open may fail (OSError).
MainWrite ==
    /\ pc = "main_write"
    /\ \E can_open \in BOOLEAN :
        IF can_open
        THEN /\ file' = Some(svg.v)
             /\ pc' = "main_print"
             /\ UNCHANGED <<err, exit_code, uncaught>>
        ELSE /\ Die("OSError")
             /\ UNCHANGED file
    /\ UNCHANGED <<args, clock, today, period, palette, req, i, last_err, net, exc,
                   summaries, totals, svg, out>>

\* main: the two lines of the success summary, then the end of main.
MainPrint ==
    /\ pc = "main_print"
    /\ out' = out \o << <<"SVG genere", args.output>>,
                        <<"Periode", args.timezone, args.palette>> >>
    /\ exit_code' = Some(ExitSuccess)
    /\ pc' = "exited"
    /\ UNCHANGED <<args, clock, today, period, palette, req, i, last_err, net, exc,
                   summaries, totals, svg, file, err, uncaught>>

Next ==
    \/ MainCheckKey
    \/ MainComputePeriod
    \/ MainBuildPalette
    \/ FetchEnter
    \/ FetchAttempt
    \/ FetchExhausted
    \/ MainExcept
    \/ MainTotals
    \/ MainRender
    \/ MainWrite
    \/ MainPrint

\* ---------------------------------------------------------- specifications

\* Whole runs of main.  With a missing or malformed key: every other option
\* varies.  With a valid key: every retry count, periods that resolve and periods
\* whose date arithmetic raises.
BigLastDays == 1000000
InvalidKeys == {KeyMissing, KeyEmpty, KeyOther, KeyShort}
MainModes == {LastDays(7), LastDays(BigLastDays), Year(10000)}
Init ==
    \/ InitWith(ArgsOf(InvalidKeys, MainModes \cup {LastDays(30), Year(2024)},
                       (-1)..MaxRetriesArg, PaletteNames, {None, CustomTitle}),
                Todays)
    \/ InitWith(ArgsOf({KeyValid1}, MainModes, (-1)..MaxRetriesArg, {"green6"},
                       {None}),
                {FirstToday})
    \/ InitWith(ArgsOf({KeyValid2}, {Year(9999), LastDays(30)}, {1}, {"gray6"},
                       {CustomTitle}),
                {FirstToday})
Spec == Init /\ [][Next]_vars

\* compute_period and the grid it leads to: every --last-days from -2 to
\* MaxLastDays, on every weekday.
MaxLastDays == 15
InitPeriod ==
    \/ InitWith(ArgsOf({KeyValid2},
                       {LastDays(n) : n \in (-2)..MaxLastDays}
                           \cup {LastDays(BigLastDays)},
                       {1}, {"blue6"}, {None}),
                Todays)
    \/ InitWith(ArgsOf({KeyValid2}, {Year(2025), Year(9999), Year(1)}, {1}, {"blue6"},
                       {None}),
                {FirstToday})
SpecPeriod == InitPeriod /\ [][Next]_vars

\* The renderer: every palette, a week, a month and a year of data, with and
\* without a title.
InitRender ==
    \/ InitWith(ArgsOf({KeyValid1}, {LastDays(7), LastDays(30)}, {1}, PaletteNames,
                       {None, CustomTitle}),
                Todays)
    \/ InitWith(ArgsOf({KeyValid1}, {Year(2024), Year(0)}, {1}, PaletteNames, {None}),
                {FirstToday})
SpecRender == InitRender /\ [][Next]_vars

\* ------------------------------------------------------------- properties

Last(seq) == seq[Len(seq)]

\* Log names of the failures that are retried, and of the HTTP / URL errors that
\* are not.
TransientTags == {"429", "500", "502", "503", "504", "url:Remote"}
TransientHttpTags == {"429", "500", "502", "503", "504"}
FatalTags == {"401", "404", "url:timed"}

\* The line main prints for an exception out of the fetch.
FetchErrorLine(e) == <<"Erreur lors de l'appel WakaTime">> \o e.str

\* C1: with a valid key and max_retries = M >= 1, k < M failures with HTTP 429
\* followed by a success return that response's data array after exactly k + 1
\* requests; M transient failures in a row make the call raise after exactly M
\* requests; request M + 1 is never issued.
C1_RetryThenReturnOrRaise ==
    /\ net.requests <= Max(0, args.max_retries)
    /\ (/\ ~summaries.none
        /\ args.max_retries >= 1
        /\ \A j \in 1..(Len(net.log) - 1) : net.log[j] = "429")
       => /\ Last(net.log) = "ok"
          /\ net.requests = Len(net.log)
          /\ net.requests <= args.max_retries
          /\ Len(net.sleeps) = net.requests - 1
          /\ summaries.v = net.served.v
    /\ (/\ args.max_retries >= 1
        /\ Len(net.log) = args.max_retries
        /\ \A j \in 1..Len(net.log) : net.log[j] \in TransientHttpTags)
       => /\ net.requests = args.max_retries
          /\ summaries.none
          /\ pc \in {"fetch_loop", "main_except", "exited"}
          /\ (pc = "fetch_loop" => ~LoopContinues(i, args.max_retries))
          /\ (pc # "fetch_loop" => exc = net.met /\ exc.type = "HTTPError")

\* A run that returned at the third request, after two 429s.
C1_Witness ==
    /\ ~summaries.none
    /\ args.max_retries = 3
    /\ net.log = <<"429", "429", "ok">>
    /\ net.requests = 3

\* C2: with a missing or malformed key main ends with status 1 at the key
\* check: no period is resolved, no request is built or sent, nothing is written
\* or printed on stdout, whatever the other options are.
C2_BadKeyExitsFirst ==
    args.api_key \in InvalidKeys
    => /\ pc \in {"main_key", "exited"}
       /\ today.none
       /\ period.none
       /\ palette = <<>>
       /\ req.none
       /\ net.requests = 0
       /\ file.none
       /\ out = <<>>
       /\ (pc = "exited" => exit_code = Some(ExitBadKey) /\ uncaught = "none")

\* A run with a key that lacks the prefix and --last-days 30, ended.
C2_Witness ==
    /\ pc = "exited"
    /\ args.api_key = KeyOther
    /\ args.last_days = 30
    /\ exit_code = Some(ExitBadKey)

\* C3: the output file is written only once the fetch has returned the data of
\* a successful response and the renderer has returned the document, and it
\* holds that whole document; when the fetch raised, no file is written and no
\* success summary is printed.
C3_WriteOnlyAfterRender ==
    /\ ~file.none
       => /\ ~summaries.none
          /\ Len(net.log) > 0
          /\ Last(net.log) = "ok"
          /\ summaries.v = net.served.v
          /\ exc = NoError
          /\ ~svg.none
          /\ file.v = svg.v
    /\ exc # NoError => file.none /\ out = <<>>
    /\ out # <<>> => ~file.none

\* A run that wrote its file after a retried failure.
C3_Witness ==
    /\ pc = "exited"
    /\ ~file.none
    /\ Len(net.sleeps) >= 1
    /\ Len(out) = 2

\* C4 as stated: a fetch failure ends main with status 2 after the error is
\* printed, status 0 only follows a successful fetch and a written file, and
\* status 1 only follows a missing or malformed key.
C4_Original ==
    pc = "exited"
    => /\ exc # NoError
          => exit_code = Some(ExitFetchError) /\ err = <<FetchErrorLine(exc)>>
       /\ exit_code = Some(ExitSuccess)
          => ~summaries.none /\ ~file.none /\ exc = NoError
       /\ exit_code = Some(1) => args.api_key \in InvalidKeys

\* C4, amended: a fetch failure ends main with status 2 after the error is
\* printed; status 0 only follows a successful fetch and a written file; status 1
\* follows a missing or malformed key and, with a valid key, only an exception
\* that nobody catches outside the fetch (period resolution, aggregation,
\* rendering, opening the file), never a fetch failure.
C4_ExitCodes ==
    pc = "exited"
    => /\ exc # NoError
          => exit_code = Some(ExitFetchError) /\ err = <<FetchErrorLine(exc)>>
       /\ exit_code = Some(ExitSuccess)
          => ~summaries.none /\ ~file.none /\ exc = NoError
       /\ exit_code = Some(1)
          => \/ args.api_key \in InvalidKeys
             \/ (uncaught # "none" /\ exc = NoError /\ args.api_key \notin InvalidKeys)
       /\ args.api_key \in InvalidKeys => exit_code = Some(1)
       /\ exit_code = Some(ExitFetchError) => exc # NoError

\* A run ended with status 2 after three transient failures out of three.
C4_Witness ==
    /\ pc = "exited"
    /\ exit_code = Some(ExitFetchError)
    /\ args.max_retries = 3
    /\ net.requests = 3
    /\ exc.type = "HTTPError"

\* C5 as stated: a body that is not JSON is not retried, is not handled by
\* main's handler of fetch errors, ends the process uncaught with a non-zero
\* status, and no file is written.
C5_Original ==
    exc = JSONDecodeError
    => /\ Last(net.log) = "badjson"
       /\ pc # "main_except"
       /\ file.none
       /\ pc = "exited"
          => /\ uncaught # "none"
             /\ exit_code # Some(ExitSuccess)
             /\ err # <<FetchErrorLine(exc)>>

\* C5, amended: a body that is not JSON is not retried (no sleep, no further
\* request); its JSONDecodeError leaves fetch_summaries and is caught by main's
\* handler of fetch errors, which prints it and ends the process with status 2;
\* no file is written.
C5_MalformedJsonExits2 ==
    /\ \A j \in 1..Len(net.log) : net.log[j] = "badjson" => j = Len(net.log)
    /\ (Len(net.log) > 0 /\ Last(net.log) = "badjson")
       => /\ exc = JSONDecodeError
          /\ net.requests = Len(net.log)
          /\ Len(net.sleeps) = Len(net.log) - 1
          /\ pc \in {"main_except", "exited"}
          /\ uncaught = "none"
          /\ summaries.none
          /\ file.none
          /\ out = <<>>
          /\ pc = "exited"
             => exit_code = Some(ExitFetchError) /\ err = <<FetchErrorLine(exc)>>

\* A run ended by a body that is not JSON, met at the second request.
C5_Witness ==
    /\ pc = "exited"
    /\ exc = JSONDecodeError
    /\ Len(net.log) = 2
    /\ exit_code = Some(ExitFetchError)

BucketFloor == <<0, 3600, 14400, 32400, 39600, 46800>>
InBucket(s, b) == s >= BucketFloor[b + 1] /\ (b = 5 \/ s < BucketFloor[b + 2])

\* The seconds the aggregated totals hold.
TotalSeconds == {totals.v[d] : d \in DOMAIN totals.v}

\* C7: for the seconds >= 0 of the totals, bucket6 is the bucket of the table
\* and is monotonic; a rendered cell with seconds <= 0 has the zero color and not
\* palette[0]; a cell with seconds > 0 has the palette color of its bucket (40000
\* seconds: the 5th color).
C7_Bucketing ==
    ~svg.none
    => /\ \A s \in TotalSeconds :
             s >= 0 => bucket6(s) \in 0..5 /\ InBucket(s, bucket6(s))
       /\ \A s1, s2 \in TotalSeconds :
             (0 <= s1 /\ s1 <= s2) => bucket6(s1) <= bucket6(s2)
       /\ \A k \in 1..Len(svg.v.rects) :
             LET c == svg.v.rects[k]
                 s == IF c.date \in DOMAIN totals.v THEN totals.v[c.date] ELSE 0
             IN  /\ s <= 0 => c.fill = ZERO_COLOR /\ c.fill # palette[1]
                 /\ s > 0 => \E b \in 0..5 : InBucket(s, b) /\ c.fill = palette[b + 1]
                 /\ s = 40000 => c.fill = palette[5]

\* A rendered document with a cell of 40000 seconds in the 5th orange.
C7_Witness ==
    /\ ~svg.none
    /\ args.palette = "orange6"
    /\ \E k \in 1..Len(svg.v.rects) :
          /\ svg.v.rects[k].date \in DOMAIN totals.v
          /\ totals.v[svg.v.rects[k].date] = 40000
          /\ svg.v.rects[k].fill = "#ef6c00"

\* The ordinal an ISO date <<y, m, d>> reads back as.
OrdinalOfIso(t) == MakeDate(t[1], t[2], t[3]).v

WeekOfZeros ==
    /\ ~svg.none
    /\ args.year.none
    /\ args.last_days = 7
    /\ \A d \in DOMAIN totals.v : totals.v[d] = 0

\* The legend: 7 swatches, the zero color and then the palette in its order.
LegendOfSeven ==
    /\ Len(svg.v.legend) = 7
    /\ svg.v.legend[1].fill = ZERO_COLOR
    /\ \A j \in 1..6 : svg.v.legend[j + 1].fill = build_palette6(args.palette)[j]
    /\ \A j \in 1..6 : svg.v.legend[j].x < svg.v.legend[j + 1].x

\* C9 as stated: --last-days 7 with every day at 0 seconds renders, on any
\* weekday, one week of exactly 7 cells, all in the zero color, and a legend of 7
\* swatches, the zero color first and then the palette.
C9_Original ==
    WeekOfZeros
    => /\ Len(svg.v.rects) = 7
       /\ \A k \in 1..Len(svg.v.rects) : svg.v.rects[k].fill = ZERO_COLOR
       /\ LegendOfSeven

\* C9, amended: --last-days 7 with every day at 0 seconds renders one week of 7
\* cells when today is a Sunday and two weeks of 14 cells on any other weekday,
\* all cells in the zero color, and a legend of 7 swatches, the zero color first
\* and then the palette.
C9_WeekOfZeros ==
    WeekOfZeros
    => /\ Len(svg.v.rects) = (IF clock % 7 = 0 THEN 7 ELSE 14)
       /\ \A k \in 1..Len(svg.v.rects) : svg.v.rects[k].fill = ZERO_COLOR
       /\ LegendOfSeven

\* Such a run on a Sunday, with the purple palette: 7 cells.
C9_Witness ==
    /\ WeekOfZeros
    /\ DOMAIN totals.v # {}
    /\ clock % 7 = 0
    /\ args.palette = "purple6"
    /\ Len(svg.v.rects) = 7

\* What C10 says of the attempts: a failure is followed by another attempt only
\* if it is transient and its number is below max_retries; the sleep after
\* failure j is 2 * j seconds; an HTTP / URL error that is not transient leaves
\* the function at once, with no sleep.
C10_RetryDiscipline ==
    /\ \A j \in 1..(Len(net.log) - 1) :
          net.log[j] \in TransientTags /\ j < args.max_retries
    /\ \A j \in 1..Len(net.sleeps) :
          net.sleeps[j] = 2 * j /\ net.log[j] \in TransientTags
    /\ (Len(net.log) > 0 /\ Last(net.log) \in FatalTags)
       => /\ exc = net.met
          /\ Len(net.sleeps) = Len(net.log) - 1
          /\ pc \in {"main_except", "exited"}

\* C10, for any integer max_retries: the retry discipline above, and whenever
\* fetch_summaries raises, what it raises is the failure of the last attempt made.
C10_Original ==
    /\ C10_RetryDiscipline
    /\ exc # NoError => net.requests >= 1 /\ exc = net.met

\* What holds of the raised error: with max_retries >= 1 it is the failure of the
\* last attempt; with max_retries <= 0 no attempt is made and it is the
\* TypeError of `raise None`.
C10_RaisedError ==
    exc # NoError
    => IF args.max_retries >= 1
       THEN net.requests >= 1 /\ exc = net.met
       ELSE net.requests = 0 /\ exc = TypeErrorRaiseNone

====
